---- MODULE Spec2Model ----
(***************************************************************************)
(* A model of src/app.py: the AC/DC circuit simulator.                     *)
(*                                                                         *)
(* simulate_circuit(file_content, mode) parses a netlist, sizes and        *)
(* allocates the MNA matrices, stamps resistors and voltage sources,       *)
(* solves A x = z and formats a report.  One call is one behaviour: the    *)
(* netlist and the mode are chosen in Init, the steps of the call are the  *)
(* actions.                                                                *)
(*                                                                         *)
(* Text.  A line is the sequence of its whitespace-separated tokens (what  *)
(* line.strip().split() returns); a token is a sequence of one-character   *)
(* strings.  The phasor marker U+2220 is written "/_".                     *)
(*                                                                         *)
(* Numbers.  Python floats and numpy complex128 are modelled in exact      *)
(* arithmetic as complex rationals (n + m j) / d with d > 0 and            *)
(* gcd(n, m, d) = 1.  A DC value has m = 0.                                *)
(***************************************************************************)
EXTENDS Integers, Sequences, FiniteSets, TLC

----------------------------------------------------------------------------
(* Exact complex rational arithmetic                                       *)

Abs(i) == IF i < 0 THEN -i ELSE i

RECURSIVE GCD(_, _)
GCD(a, b) == IF b = 0 THEN Abs(a) ELSE GCD(b, a % b)

\* (n + m j) / d in lowest terms with a positive denominator
Num(n, m, d) ==
    LET g == GCD(GCD(Abs(n), Abs(m)), Abs(d))
        s == IF d < 0 THEN -1 ELSE 1
    IN  [n |-> (s * n) \div g, m |-> (s * m) \div g, d |-> (s * d) \div g]

Real(i) == [n |-> i, m |-> 0, d |-> 1]
Zero == Real(0)
One == Real(1)

IsZero(a) == a.n = 0 /\ a.m = 0
IsReal(a) == a.m = 0

CAdd(a, b) == Num(a.n * b.d + b.n * a.d, a.m * b.d + b.m * a.d, a.d * b.d)
CNeg(a) == [n |-> -a.n, m |-> -a.m, d |-> a.d]
CSub(a, b) == CAdd(a, CNeg(b))
CMul(a, b) == Num(a.n * b.n - a.m * b.m, a.n * b.m + a.m * b.n, a.d * b.d)
\* a / b for b # 0: a * conj(b) / |b|^2
CDiv(a, b) ==
    Num((a.n * b.n + a.m * b.m) * b.d,
        (a.m * b.n - a.n * b.m) * b.d,
        a.d * (b.n * b.n + b.m * b.m))

----------------------------------------------------------------------------
(* Characters and the builtin conversions int() and float()                *)

Angle == "/_"
Digits == {"0", "1", "2", "3", "4", "5", "6", "7", "8", "9"}

DigitVal(c) ==
    CASE c = "0" -> 0 [] c = "1" -> 1 [] c = "2" -> 2 [] c = "3" -> 3
      [] c = "4" -> 4 [] c = "5" -> 5 [] c = "6" -> 6 [] c = "7" -> 7
      [] c = "8" -> 8 [] c = "9" -> 9

\* str.upper() on one character, over the letters the explored names use
Upper(c) ==
    CASE c = "r" -> "R" [] c = "v" -> "V" [] c = "c" -> "C" [] c = "x" -> "X"
      [] OTHER -> c

Drop(s, k) == SubSeq(s, k + 1, Len(s))
Take(s, k) == SubSeq(s, 1, k)

AllDigits(s) == \A i \in 1..Len(s) : s[i] \in Digits

RECURSIVE DigitsVal(_)
DigitsVal(s) ==
    IF s = <<>> THEN 0
    ELSE 10 * DigitsVal(Take(s, Len(s) - 1)) + DigitVal(s[Len(s)])

RECURSIVE Pow10(_)
Pow10(k) == IF k = 0 THEN 1 ELSE 10 * Pow10(k - 1)

Signed(s) == s # <<>> /\ s[1] \in {"-", "+"}
SignOf(s) == IF Signed(s) /\ s[1] = "-" THEN -1 ELSE 1
Unsigned(s) == IF Signed(s) THEN Drop(s, 1) ELSE s

Fail == [ok |-> FALSE]

\* int(tok): an optional sign and one or more decimal digits; ValueError otherwise
PyInt(tok) ==
    LET body == Unsigned(tok)
    IN  IF body # <<>> /\ AllDigits(body)
        THEN [ok |-> TRUE, val |-> SignOf(tok) * DigitsVal(body)]
        ELSE Fail

\* float(tok): [sign] digits [. digits] or [sign] . digits; ValueError otherwise
PyFloat(tok) ==
    LET body == Unsigned(tok)
        dots == {i \in 1..Len(body) : body[i] = "."}
    IN  IF body = <<>> \/ Cardinality(dots) > 1 THEN Fail
        ELSE IF dots = {} THEN
            IF AllDigits(body)
            THEN [ok |-> TRUE, val |-> Real(SignOf(tok) * DigitsVal(body))]
            ELSE Fail
        ELSE
            LET p == CHOOSE i \in dots : TRUE
                ip == Take(body, p - 1)
                fp == Drop(body, p)
            IN  IF AllDigits(ip) /\ AllDigits(fp) /\ Len(ip) + Len(fp) > 0
                THEN [ok |-> TRUE,
                      val |-> Num(SignOf(tok) * (DigitsVal(ip) * Pow10(Len(fp)) + DigitsVal(fp)),
                                  0, Pow10(Len(fp)))]
                ELSE Fail

----------------------------------------------------------------------------
(* parse_circuit_file: the value literal                                   *)

NumChars == Digits \cup {"."}

\* length of the longest prefix of s matching [0-9.]*
RECURSIVE NumRun(_)
NumRun(s) == IF s # <<>> /\ s[1] \in NumChars THEN 1 + NumRun(Drop(s, 1)) ELSE 0

\* re.match(r"([0-9.]+)/_([-+]?[0-9.]+)", tok): anchored at the start only,
\* whatever follows the phase is ignored
PhasorMatch(tok) ==
    LET k == NumRun(tok)
        rest == Drop(tok, k + 1)
        body == Unsigned(rest)
        j == NumRun(body)
    IN  IF k >= 1 /\ Len(tok) > k /\ tok[k + 1] = Angle /\ j >= 1
        THEN [ok |-> TRUE, mag |-> Take(tok, k),
              phase |-> Take(rest, Len(rest) - Len(body) + j)]
        ELSE Fail

\* np.exp(1j * np.deg2rad(p)), exact on the multiples of 90 degrees: the
\* explored phasor literals carry no other phase
CisDeg(p) ==
    LET q == (p.n \div 90) % 4
    IN  CASE p.d = 1 /\ p.n % 90 = 0 /\ q = 0 -> Real(1)
          [] p.d = 1 /\ p.n % 90 = 0 /\ q = 1 -> [n |-> 0, m |-> 1, d |-> 1]
          [] p.d = 1 /\ p.n % 90 = 0 /\ q = 2 -> Real(-1)
          [] p.d = 1 /\ p.n % 90 = 0 /\ q = 3 -> [n |-> 0, m |-> -1, d |-> 1]

\* lines 35-45: the value of a line's fourth token
ParseVal(val_str, mode) ==
    LET match == PhasorMatch(val_str)
    IN  IF mode = "AC" /\ match.ok
        THEN LET magnitude == PyFloat(match.mag)
                 phase_deg == PyFloat(match.phase)
             IN  IF magnitude.ok /\ phase_deg.ok
                 THEN [ok |-> TRUE, val |-> CMul(magnitude.val, CisDeg(phase_deg.val))]
                 ELSE Fail
        ELSE PyFloat(val_str)

----------------------------------------------------------------------------
(* parse_circuit_file: one line                                            *)

Elem(name, n1, n2, val) == [name |-> name, n1 |-> n1, n2 |-> n2, val |-> val]

Raise(exc) == [kind |-> "raise", exc |-> exc]

\* the list a line's name dispatches to (lines 47-50); "none" is the silent drop
Dispatch(name) ==
    IF Upper(name[1]) = "R" THEN "R"
    ELSE IF Upper(name[1]) = "V" THEN "V"
    ELSE "none"

\* ParseLine with a handler that skips a line it cannot parse
ParseLineLenient(parts, mode) ==
    IF parts = <<>> \/ parts[1][1] = "#" THEN [kind |-> "skip"]
    ELSE IF Len(parts) < 4 THEN [kind |-> "skip"]
    ELSE IF ~PyInt(parts[2]).ok \/ ~PyInt(parts[3]).ok THEN [kind |-> "skip"]
    ELSE IF ~ParseVal(parts[4], mode).ok THEN [kind |-> "skip"]
    ELSE [kind |-> Dispatch(parts[1]),
          elem |-> Elem(parts[1], PyInt(parts[2]).val, PyInt(parts[3]).val,
                        ParseVal(parts[4], mode).val)]

\* lines 27-50 for one line: skipped, raised, or an element for a list
ParseLine(parts, mode) ==
    IF parts = <<>> \/ parts[1][1] = "#" THEN [kind |-> "skip"]
    ELSE IF Len(parts) < 2 THEN Raise("IndexError")
    ELSE IF ~PyInt(parts[2]).ok THEN Raise("ValueError")
    ELSE IF Len(parts) < 3 THEN Raise("IndexError")
    ELSE IF ~PyInt(parts[3]).ok THEN Raise("ValueError")
    ELSE IF Len(parts) < 4 THEN Raise("IndexError")
    ELSE IF ~ParseVal(parts[4], mode).ok THEN Raise("ValueError")
    ELSE [kind |-> Dispatch(parts[1]),
          elem |-> Elem(parts[1], PyInt(parts[2]).val, PyInt(parts[3]).val,
                        ParseVal(parts[4], mode).val)]

----------------------------------------------------------------------------
(* numpy arrays: a matrix is the sequence of its rows, row i of numpy at   *)
(* position i + 1                                                          *)

\* the position numpy index i denotes in an axis of length n (negative
\* indices count from the end); 0 when numpy raises IndexError
PyIndex(i, n) ==
    IF 0 <= i /\ i < n THEN i + 1
    ELSE IF -n <= i /\ i < 0 THEN i + n + 1
    ELSE 0

\* the sequence f[1], ..., f[n], each entry computed once
RECURSIVE ToSeq(_, _)
ToSeq(f, n) == IF n = 0 THEN <<>> ELSE Append(ToSeq(f, n - 1), f[n])

Zeros(rows, cols) == ToSeq([i \in 1..rows |-> ToSeq([j \in 1..cols |-> Zero], cols)], rows)

AddAt(Mx, i, j, v) == [Mx EXCEPT ![i][j] = CAdd(@, v)]
SetAt(Mx, i, j, v) == [Mx EXCEPT ![i][j] = v]

RECURSIVE MaxOf(_)
MaxOf(S) ==
    LET e == CHOOSE e \in S : TRUE
    IN  IF S = {e} THEN e
        ELSE LET r == MaxOf(S \ {e}) IN IF e > r THEN e ELSE r

\* line 58, on a non-empty element list
MaxNodeOf(elems) ==
    MaxOf({elems[i].n1 : i \in 1..Len(elems)} \cup {elems[i].n2 : i \in 1..Len(elems)})

----------------------------------------------------------------------------
(* The stamps                                                              *)

\* StampResistor without the off-diagonal entries of lines 72-74
StampResistorDiagonal(Gm, r, N) ==
    LET i1 == PyIndex(r.n1 - 1, N)
        i2 == PyIndex(r.n2 - 1, N)
    IN  IF IsZero(r.val) THEN Raise("ZeroDivisionError")
        ELSE IF r.n1 # 0 /\ i1 = 0 THEN Raise("IndexError")
        ELSE IF r.n2 # 0 /\ i2 = 0 THEN Raise("IndexError")
        ELSE
            LET g == CDiv(One, r.val)
                Ga == IF r.n1 # 0 THEN AddAt(Gm, i1, i1, g) ELSE Gm
                Gb == IF r.n2 # 0 THEN AddAt(Ga, i2, i2, g) ELSE Ga
            IN  [kind |-> "ok", G |-> Gb]

\* lines 69-74 for one resistor on an N x N matrix G.  1 / val raises
\* ZeroDivisionError on a float 0.0; the explored phasor literals have a
\* non-zero magnitude, so a numpy complex zero never reaches the division
StampResistor(Gm, r, N) ==
    LET i1 == PyIndex(r.n1 - 1, N)
        i2 == PyIndex(r.n2 - 1, N)
    IN  IF IsZero(r.val) THEN Raise("ZeroDivisionError")
        ELSE IF r.n1 # 0 /\ i1 = 0 THEN Raise("IndexError")
        ELSE IF r.n2 # 0 /\ i2 = 0 THEN Raise("IndexError")
        ELSE
            LET g == CDiv(One, r.val)
                Ga == IF r.n1 # 0 THEN AddAt(Gm, i1, i1, g) ELSE Gm
                Gb == IF r.n2 # 0 THEN AddAt(Ga, i2, i2, g) ELSE Ga
                Gc == IF r.n1 # 0 /\ r.n2 # 0
                      THEN AddAt(AddAt(Gb, i1, i2, CNeg(g)), i2, i1, CNeg(g))
                      ELSE Gb
            IN  [kind |-> "ok", G |-> Gc]

\* StampSource with the two signs exchanged
StampSourceSwapped(Bm, v, k, N) ==
    LET i1 == PyIndex(v.n1 - 1, N)
        i2 == PyIndex(v.n2 - 1, N)
    IN  IF v.n1 # 0 /\ i1 = 0 THEN Raise("IndexError")
        ELSE IF v.n2 # 0 /\ i2 = 0 THEN Raise("IndexError")
        ELSE
            LET Ba == IF v.n1 # 0 THEN SetAt(Bm, i1, k + 1, Real(-1)) ELSE Bm
                Bb == IF v.n2 # 0 THEN SetAt(Ba, i2, k + 1, One) ELSE Ba
            IN  [kind |-> "ok", B |-> Bb]

\* StampSource writing every source into the first column
StampSourceFirstColumn(Bm, v, k, N) ==
    LET i1 == PyIndex(v.n1 - 1, N)
        i2 == PyIndex(v.n2 - 1, N)
    IN  IF v.n1 # 0 /\ i1 = 0 THEN Raise("IndexError")
        ELSE IF v.n2 # 0 /\ i2 = 0 THEN Raise("IndexError")
        ELSE
            LET Ba == IF v.n1 # 0 THEN SetAt(Bm, i1, 1, One) ELSE Bm
                Bb == IF v.n2 # 0 THEN SetAt(Ba, i2, 1, Real(-1)) ELSE Ba
            IN  [kind |-> "ok", B |-> Bb]

\* lines 78-79 for the source of column k (0-based) on the N-row matrix B
StampSource(Bm, v, k, N) ==
    LET i1 == PyIndex(v.n1 - 1, N)
        i2 == PyIndex(v.n2 - 1, N)
    IN  IF v.n1 # 0 /\ i1 = 0 THEN Raise("IndexError")
        ELSE IF v.n2 # 0 /\ i2 = 0 THEN Raise("IndexError")
        ELSE
            LET Ba == IF v.n1 # 0 THEN SetAt(Bm, i1, k + 1, One) ELSE Bm
                Bb == IF v.n2 # 0 THEN SetAt(Ba, i2, k + 1, Real(-1)) ELSE Ba
            IN  [kind |-> "ok", B |-> Bb]

----------------------------------------------------------------------------
(* The solve                                                               *)

\* np.block([[G, B], [B.T, D]]) with D the M x M zero matrix (lines 83-85)
BlockA(Gm, Bm, N, M) ==
    ToSeq([i \in 1..(N + M) |->
        ToSeq([j \in 1..(N + M) |->
            IF i <= N /\ j <= N THEN Gm[i][j]
            ELSE IF i <= N THEN Bm[i][j - N]
            ELSE IF j <= N THEN Bm[j][i - N]
            ELSE Zero], N + M)], N + M)

\* Gauss-Jordan elimination of column c of the n x (n + 1) augmented matrix
\* Ab; <<>> when the column has no pivot left (the matrix is singular)
RECURSIVE Eliminate(_, _, _)
Eliminate(Ab, c, n) ==
    IF c > n THEN Ab
    ELSE
        LET cand == {p \in c..n : ~IsZero(Ab[p][c])}
        IN  IF cand = {} THEN <<>>
            ELSE
                LET p == CHOOSE q \in cand : \A o \in cand : q <= o
                    swapped == [Ab EXCEPT ![c] = Ab[p], ![p] = Ab[c]]
                    prow == ToSeq([j \in 1..(n + 1) |->
                                     CDiv(swapped[c][j], swapped[c][c])], n + 1)
                    next == ToSeq([i \in 1..n |->
                                IF i = c THEN prow
                                ELSE ToSeq([j \in 1..(n + 1) |->
                                        CSub(swapped[i][j], CMul(swapped[i][c], prow[j]))],
                                           n + 1)], n)
                IN  Eliminate(next, c + 1, n)

\* np.linalg.solve(A, z), line 88: the solution, or LinAlgError on a singular
\* A.  In exact arithmetic: LAPACK's zero pivot is det(A) = 0 here.  A 0 x 0
\* system has the empty solution
LinalgSolve(A, zv) ==
    LET n == Len(A)
        Ab == ToSeq([i \in 1..n |-> Append(A[i], zv[i])], n)
        red == Eliminate(Ab, 1, n)
    IN  IF n > 0 /\ red = <<>> THEN Raise("LinAlgError")
        ELSE [kind |-> "ok", x |-> ToSeq([i \in 1..n |-> red[i][n + 1]], n)]

----------------------------------------------------------------------------
(* The report's numbers                                                    *)

\* the digits of r / d after the decimal point, k places: <<digits, remainder>>
RECURSIVE FracDigits(_, _, _, _)
FracDigits(acc, r, d, k) ==
    IF k = 0 THEN <<acc, r>>
    ELSE FracDigits(acc * 10 + (r * 10) \div d, (r * 10) % d, d, k - 1)

\* f"{v:.kf}" of a real v: the sign and the digits of |v| * 10^k, rounded
\* to nearest, ties to even
FixedText(v, k) ==
    LET a == Abs(v.n)
        fd == FracDigits(a \div v.d, a % v.d, v.d, k)
        up == 2 * fd[2] > v.d \/ (2 * fd[2] = v.d /\ fd[1] % 2 = 1)
    IN  [neg |-> v.n < 0, digits |-> IF up THEN fd[1] + 1 ELSE fd[1]]

\* one line of the report: in DC mode with its fixed-point text, in AC mode
\* the complex value whose magnitude and angle are printed
ReportLine(label, idx, v, places, mode) ==
    IF mode = "DC"
    THEN [label |-> label, idx |-> idx, val |-> v, text |-> FixedText(v, places)]
    ELSE [label |-> label, idx |-> idx, val |-> v]

\* voltages[n - 1].item() if n != 0 else 0 (lines 117-118)
NodeVoltage(xv, n, N) == IF n # 0 THEN xv[PyIndex(n - 1, N)] ELSE Zero

\* lines 116-124 for one resistor
ResistorLine(r, xv, N, mode) ==
    LET current == CDiv(CSub(NodeVoltage(xv, r.n1, N), NodeVoltage(xv, r.n2, N)), r.val)
    IN  IF mode = "DC"
        THEN [label |-> "IR", name |-> r.name, n1 |-> r.n1, n2 |-> r.n2,
              val |-> current, text |-> FixedText(current, 6)]
        ELSE [label |-> "IR", name |-> r.name, n1 |-> r.n1, n2 |-> r.n2, val |-> current]

\* lines 98-124: the node voltages, the source currents, the resistor currents
ReportOf(xv, rs, N, M, mode) ==
    [voltages |-> ToSeq([i \in 1..N |-> ReportLine("V", i, xv[i], 4, mode)], N),
     source_currents |-> ToSeq([i \in 1..M |-> ReportLine("I", i, xv[N + i], 6, mode)], M),
     resistor_currents |->
         ToSeq([i \in 1..Len(rs) |-> ResistorLine(rs[i], xv, N, mode)], Len(rs))]

NoReport == [voltages |-> <<>>, source_currents |-> <<>>, resistor_currents |-> <<>>]

----------------------------------------------------------------------------
(* simulate_circuit as a state machine                                     *)

VARIABLES
    file_content,     \* the netlist: a sequence of lines
    mode,             \* "DC" or "AC"
    pc,               \* where the call is
    line,             \* index of the next line parse_circuit_file reads
    resistors,        \* parse_circuit_file's first list
    voltage_sources,  \* parse_circuit_file's second list
    num_nodes,        \* N, line 58
    num_vsources,     \* M, line 59
    allocated,        \* whether G, B and z exist (lines 63-65)
    G, B, z,          \* the matrices and the right-hand side
    k,                \* index of the next element a stamping loop takes
    stamps,           \* number of stamps applied so far
    solved,           \* whether np.linalg.solve was called
    x,                \* the solution vector
    outcome,          \* "running", "raise", "singular" or "report"
    exc,              \* the exception raised, when outcome = "raise"
    report            \* the report returned, when outcome = "report"

vars == <<file_content, mode, pc, line, resistors, voltage_sources, num_nodes,
          num_vsources, allocated, G, B, z, k, stamps, solved, x, outcome, exc, report>>

Modes == {"DC", "AC"}

\* the state simulate_circuit(netlist, m) starts in
Start(netlist, m) ==
    /\ file_content = netlist
    /\ mode = m
    /\ pc = "parse"
    /\ line = 1
    /\ resistors = <<>>
    /\ voltage_sources = <<>>
    /\ num_nodes = 0
    /\ num_vsources = 0
    /\ allocated = FALSE
    /\ G = <<>>
    /\ B = <<>>
    /\ z = <<>>
    /\ k = 0
    /\ stamps = 0
    /\ solved = FALSE
    /\ x = <<>>
    /\ outcome = "running"
    /\ exc = "none"
    /\ report = NoReport

\* an exception leaves simulate_circuit (the caller at line 165 shows it)
Raises(e) ==
    /\ pc' = "done"
    /\ outcome' = "raise"
    /\ exc' = e

\* lines 26-51: parse_circuit_file reads one line, or returns after the last
Parse ==
    /\ pc = "parse"
    /\ IF line > Len(file_content)
       THEN /\ pc' = "size"
            /\ UNCHANGED <<line, resistors, voltage_sources, outcome, exc>>
       ELSE LET res == ParseLine(file_content[line], mode)
            IN  IF res.kind = "raise"
                THEN /\ Raises(res.exc)
                     /\ UNCHANGED <<line, resistors, voltage_sources>>
                ELSE /\ line' = line + 1
                     /\ resistors' = IF res.kind = "R" THEN Append(resistors, res.elem)
                                     ELSE resistors
                     /\ voltage_sources' = IF res.kind = "V"
                                           THEN Append(voltage_sources, res.elem)
                                           ELSE voltage_sources
                     /\ UNCHANGED <<pc, outcome, exc>>
    /\ UNCHANGED <<file_content, mode, num_nodes, num_vsources, allocated, G, B, z, k,
                   stamps, solved, x, report>>

\* lines 58-59: max() of an empty sequence raises ValueError
Size ==
    /\ pc = "size"
    /\ IF resistors \o voltage_sources = <<>>
       THEN /\ Raises("ValueError")
            /\ UNCHANGED <<num_nodes, num_vsources>>
       ELSE /\ num_nodes' = MaxNodeOf(resistors \o voltage_sources)
            /\ num_vsources' = Len(voltage_sources)
            /\ pc' = "alloc"
            /\ UNCHANGED <<outcome, exc>>
    /\ UNCHANGED <<file_content, mode, line, resistors, voltage_sources, allocated, G, B,
                   z, k, stamps, solved, x, report>>

\* where the stamping loops continue once i elements of the current list are done
AfterStamp(loop, i) ==
    IF loop = "stampR" /\ i < Len(resistors) THEN "stampR"
    ELSE IF loop = "stampR" /\ Len(voltage_sources) > 0 THEN "stampV"
    ELSE IF loop = "stampV" /\ i < Len(voltage_sources) THEN "stampV"
    ELSE "solve"

\* lines 61-65: np.zeros raises ValueError on a negative dimension
Allocate ==
    /\ pc = "alloc"
    /\ IF num_nodes < 0
       THEN /\ Raises("ValueError")
            /\ UNCHANGED <<allocated, G, B, z>>
       ELSE /\ allocated' = TRUE
            /\ G' = Zeros(num_nodes, num_nodes)
            /\ B' = Zeros(num_nodes, num_vsources)
            /\ z' = ToSeq([i \in 1..(num_nodes + num_vsources) |-> Zero],
                          num_nodes + num_vsources)
            /\ pc' = AfterStamp("stampR", 0)
            /\ UNCHANGED <<outcome, exc>>
    /\ UNCHANGED <<file_content, mode, line, resistors, voltage_sources, num_nodes,
                   num_vsources, k, stamps, solved, x, report>>

\* lines 68-74: one iteration of the resistor loop
FillG ==
    /\ pc = "stampR"
    /\ LET res == StampResistor(G, resistors[k + 1], num_nodes)
       IN  IF res.kind = "raise"
           THEN /\ Raises(res.exc)
                /\ UNCHANGED <<G, k, stamps>>
           ELSE /\ G' = res.G
                /\ stamps' = stamps + 1
                /\ pc' = AfterStamp("stampR", k + 1)
                /\ k' = IF pc' = "stampR" THEN k + 1 ELSE 0
                /\ UNCHANGED <<outcome, exc>>
    /\ UNCHANGED <<file_content, mode, line, resistors, voltage_sources, num_nodes,
                   num_vsources, allocated, B, z, solved, x, report>>

\* lines 77-80: one iteration of the voltage-source loop
FillB ==
    /\ pc = "stampV"
    /\ LET res == StampSource(B, voltage_sources[k + 1], k, num_nodes)
       IN  IF res.kind = "raise"
           THEN /\ Raises(res.exc)
                /\ UNCHANGED <<B, z, k, stamps>>
           ELSE /\ B' = res.B
                /\ z' = [z EXCEPT ![num_nodes + k + 1] = voltage_sources[k + 1].val]
                /\ stamps' = stamps + 1
                /\ pc' = AfterStamp("stampV", k + 1)
                /\ k' = IF pc' = "stampV" THEN k + 1 ELSE 0
                /\ UNCHANGED <<outcome, exc>>
    /\ UNCHANGED <<file_content, mode, line, resistors, voltage_sources, num_nodes,
                   num_vsources, allocated, G, solved, x, report>>

\* the matrix of the system once both loops are done
A == BlockA(G, B, num_nodes, num_vsources)

\* lines 83-93: assemble A and solve; a singular A returns the diagnostic
Solve ==
    /\ pc = "solve"
    /\ solved' = TRUE
    /\ LET res == LinalgSolve(A, z)
       IN  IF res.kind = "raise"
           THEN /\ pc' = "done"
                /\ outcome' = "singular"
                /\ UNCHANGED x
           ELSE /\ x' = res.x
                /\ pc' = "report"
                /\ UNCHANGED outcome
    /\ UNCHANGED <<file_content, mode, line, resistors, voltage_sources, num_nodes,
                   num_vsources, allocated, G, B, z, k, stamps, exc, report>>

\* lines 98-147: format the report (the drawing calls change nothing here)
Report ==
    /\ pc = "report"
    /\ report' = ReportOf(x, resistors, num_nodes, num_vsources, mode)
    /\ outcome' = "report"
    /\ pc' = "done"
    /\ UNCHANGED <<file_content, mode, line, resistors, voltage_sources, num_nodes,
                   num_vsources, allocated, G, B, z, k, stamps, solved, x, exc>>

Next == Parse \/ Size \/ Allocate \/ FillG \/ FillB \/ Solve \/ Report

----------------------------------------------------------------------------
(* The netlists explored                                                   *)

MaxLines == 3

\* the decimal literal of a natural number, as str() writes it
RECURSIVE NatTok(_)
NatTok(i) ==
    LET c == CHOOSE c \in Digits : DigitVal(c) = i % 10
    IN  IF i < 10 THEN <<c>> ELSE Append(NatTok(i \div 10), c)

IntTok(i) == IF i < 0 THEN <<"-">> \o NatTok(-i) ELSE NatTok(i)

ElemLine(name, n1, n2, val) == <<name, IntTok(n1), IntTok(n2), val>>

BlankLine == <<>>
CommentLine == <<<<"#">>, <<"R", "1">>, <<"0">>, <<"1">>, <<"2">>>>

\* well-formed resistor and source lines on the nodes 0, 1, 2
GoodLines ==
    { ElemLine(<<"R", "1">>, 0, 1, <<"2">>),
      ElemLine(<<"r", "2">>, 1, 2, <<"1">>),
      ElemLine(<<"V", "1">>, 1, 0, <<"2">>),
      ElemLine(<<"v", "2">>, 2, 0, <<"1">>),
      ElemLine(<<"V", "1">>, 0, 2, <<"1">>) }

\* lines the parser accepts that the specification's data model excludes
OddLines ==
    { ElemLine(<<"C", "1">>, 0, 1, <<"1">>),
      ElemLine(<<"V", "1">>, 1, 1, <<"2">>),
      ElemLine(<<"R", "1">>, 0, -1, <<"2">>),
      ElemLine(<<"R", "1">>, 0, 1, <<"0">>),
      ElemLine(<<"R", "1">>, 0, 1, <<"2", Angle, "9", "0">>),
      ElemLine(<<"V", "1">>, 1, 0, <<"1", Angle, "-", "9", "0">>) }

\* lines on which int(), float() or the indexing of parts raises
BadLines ==
    { <<<<"R", "1">>>>,
      <<<<"R", "1">>, <<"0">>, <<"1">>>>,
      <<<<"R", "1">>, <<"a">>, <<"1">>, <<"2">>>>,
      <<<<"V", "1">>, <<"0">>, <<"1", ".", "5">>, <<"2">>>>,
      <<<<"V", "1">>, <<"0">>, <<"1">>, <<"x">>>> }

Lines == {BlankLine, CommentLine} \cup GoodLines \cup OddLines \cup BadLines

Netlists(pool, n) == UNION {[1..m -> pool] : m \in 0..n}

Init == \E netlist \in Netlists(Lines, MaxLines), m \in Modes : Start(netlist, m)

Spec == Init /\ [][Next]_vars

\* netlists of well-formed and malformed lines
ParseLines == {BlankLine, CommentLine} \cup BadLines \cup
    { ElemLine(<<"R", "1">>, 0, 1, <<"2">>),
      ElemLine(<<"V", "1">>, 1, 0, <<"2">>),
      ElemLine(<<"V", "1">>, 1, 0, <<"1", Angle, "-", "9", "0">>) }

InitParse == \E netlist \in Netlists(ParseLines, MaxLines), m \in Modes : Start(netlist, m)

SpecParse == InitParse /\ [][Next]_vars

\* netlists of well-formed lines, comments, blanks and an unrecognized element
OrderLines == {BlankLine, CommentLine, ElemLine(<<"C", "1">>, 0, 1, <<"1">>)} \cup GoodLines

InitOrder == \E netlist \in Netlists(OrderLines, MaxLines), m \in Modes : Start(netlist, m)

SpecOrder == InitOrder /\ [][Next]_vars

\* the single loop and the voltage divider, over integer values
MaxR == 10
MaxV == 5

LoopNetlist(r, v) ==
    << ElemLine(<<"R", "1">>, 0, 1, IntTok(r)),
       ElemLine(<<"V", "1">>, 0, 1, IntTok(v)) >>

DividerNetlist(ra, rb, v) ==
    << ElemLine(<<"R", "1">>, 0, 1, IntTok(ra)),
       ElemLine(<<"R", "2">>, 1, 2, IntTok(rb)),
       ElemLine(<<"V", "1">>, 0, 2, IntTok(v)) >>

Circuits ==
    {LoopNetlist(r, v) : r \in 1..MaxR, v \in (-MaxV)..MaxV}
    \cup {DividerNetlist(ra, rb, v) : ra \in 1..MaxR, rb \in 1..MaxR, v \in (-MaxV)..MaxV}

InitCircuit == \E netlist \in Circuits, m \in Modes : Start(netlist, m)

SpecCircuit == InitCircuit /\ [][Next]_vars

----------------------------------------------------------------------------
(* Vocabulary of the properties                                            *)

\* a blank line or a comment
Skipped(parts) == parts = <<>> \/ parts[1][1] = "#"

\* parse_circuit_file returned its two lists
ParseReturned == pc # "parse" /\ line > Len(file_content)

\* both stamping loops ran to their end
Assembled == pc \in {"solve", "report"} \/ (pc = "done" /\ solved)

Elements == resistors \o voltage_sources

NodesNonNegative == \A i \in 1..Len(Elements) : Elements[i].n1 >= 0 /\ Elements[i].n2 >= 0

\* a line whose name starts with neither R nor V
Unrecognized(parts) == ~Skipped(parts) /\ Upper(parts[1][1]) \notin {"R", "V"}

\* a line with fewer than 4 tokens, a non-integer node or an unparsable value
Malformed(parts, m) ==
    /\ ~Skipped(parts)
    /\ \/ Len(parts) < 4
       \/ ~PyInt(parts[2]).ok
       \/ ~PyInt(parts[3]).ok
       \/ ~ParseVal(parts[4], m).ok

\* the elements of the lines named tag ("R" or "V"), in input order
RECURSIVE SelectElems(_, _, _)
SelectElems(lines, tag, m) ==
    IF lines = <<>> THEN <<>>
    ELSE LET parts == lines[Len(lines)]
             before == SelectElems(Take(lines, Len(lines) - 1), tag, m)
         IN  IF ~Skipped(parts) /\ Upper(parts[1][1]) = tag
             THEN Append(before, Elem(parts[1], PyInt(parts[2]).val, PyInt(parts[3]).val,
                                      ParseVal(parts[4], m).val))
             ELSE before

\* the sum of row[j] * xv[j] over the first n positions
RECURSIVE Dot(_, _, _)
Dot(row, xv, n) ==
    IF n = 0 THEN Zero ELSE CAdd(Dot(row, xv, n - 1), CMul(row[n], xv[n]))

\* some index 1..N is referenced by no element
Unreferenced(i) == \A e \in 1..Len(Elements) : Elements[e].n1 # i /\ Elements[e].n2 # i
GapNodes == {i \in 1..num_nodes : Unreferenced(i)}

\* DC mode, parsed: the loop R(0,1) with R > 0 across V(0,1)
IsLoop ==
    /\ mode = "DC"
    /\ Len(resistors) = 1 /\ Len(voltage_sources) = 1
    /\ resistors[1].n1 = 0 /\ resistors[1].n2 = 1
    /\ voltage_sources[1].n1 = 0 /\ voltage_sources[1].n2 = 1
    /\ IsReal(resistors[1].val) /\ resistors[1].val.n > 0

\* -Vs / R
LoopCurrent == CNeg(CDiv(voltage_sources[1].val, resistors[1].val))

IsLoop10Ohm5Volt == IsLoop /\ resistors[1].val = Real(10) /\ voltage_sources[1].val = Real(5)

\* DC mode, parsed: the divider R(0,1), R(1,2) with positive values, V(0,2)
IsDivider ==
    /\ mode = "DC"
    /\ Len(resistors) = 2 /\ Len(voltage_sources) = 1
    /\ resistors[1].n1 = 0 /\ resistors[1].n2 = 1
    /\ resistors[2].n1 = 1 /\ resistors[2].n2 = 2
    /\ voltage_sources[1].n1 = 0 /\ voltage_sources[1].n2 = 2
    /\ \A i \in 1..2 : IsReal(resistors[i].val) /\ resistors[i].val.n > 0

\* V(1) * (Ra + Rb) of the report
DividerLhs == CMul(report.voltages[1].val, CAdd(resistors[1].val, resistors[2].val))

----------------------------------------------------------------------------
(* C1: whenever some non-blank, non-comment line has a name starting with  *)
(* neither R nor V, parsing does not succeed: parse_circuit_file never     *)
(* returns its lists with that line left out of both.                      *)
(* The code drops the line and returns (lines 47-51).                      *)
C1_UnrecognizedPrefixRaises ==
    (\E i \in 1..Len(file_content) : Unrecognized(file_content[i])) => ~ParseReturned

(* C2 as stated: in DC mode the loop R1(0,1,R), V1(0,1,Vs) with R > 0      *)
(* reports V(1) = Vs and I(V1) = -Vs/R; for R = 10, Vs = 5 the texts are   *)
(* 5.0000 and -0.500000.                                                   *)
C2_LoopVoltageIsVs ==
    pc = "done" /\ IsLoop =>
        /\ outcome = "report"
        /\ report.voltages[1].val = voltage_sources[1].val
        /\ report.source_currents[1].val = LoopCurrent
        /\ IsLoop10Ohm5Volt =>
              /\ report.voltages[1].text = [neg |-> FALSE, digits |-> 50000]
              /\ report.source_currents[1].text = [neg |-> TRUE, digits |-> 500000]

(* C2 amended: in DC mode the loop R1(0,1,R), V1(0,1,Vs) with R > 0        *)
(* reports V(1) = -Vs (the source row is V(0) - V(1) = Vs) and             *)
(* I(V1) = -Vs/R; for R = 10, Vs = 5 the texts are -5.0000 and -0.500000.  *)
C2_LoopVoltageIsMinusVs ==
    pc = "done" /\ IsLoop =>
        /\ outcome = "report"
        /\ report.voltages[1].val = CNeg(voltage_sources[1].val)
        /\ report.source_currents[1].val = LoopCurrent
        /\ IsLoop10Ohm5Volt =>
              /\ report.voltages[1].text = [neg |-> TRUE, digits |-> 50000]
              /\ report.source_currents[1].text = [neg |-> TRUE, digits |-> 500000]

C2_Witness == pc = "done" /\ outcome = "report" /\ IsLoop10Ohm5Volt

(* C3 as stated: in DC mode the divider R1(0,1,Ra), R2(1,2,Rb),            *)
(* V1(0,2,Vs) with positive resistances has V(1) * (Ra + Rb) = Vs * Rb.    *)
C3_DividerTapIsVsRb ==
    pc = "done" /\ IsDivider =>
        /\ outcome = "report"
        /\ DividerLhs = CMul(voltage_sources[1].val, resistors[2].val)

(* C3 amended: in DC mode the divider R1(0,1,Ra), R2(1,2,Rb), V1(0,2,Vs)   *)
(* with positive resistances has V(1) * (Ra + Rb) = -Vs * Ra: node 2 sits  *)
(* at -Vs and node 1 divides it over Ra, the resistor to ground.           *)
C3_DividerTapIsMinusVsRa ==
    pc = "done" /\ IsDivider =>
        /\ outcome = "report"
        /\ DividerLhs = CNeg(CMul(voltage_sources[1].val, resistors[1].val))

C3_Witness ==
    /\ pc = "done" /\ outcome = "report" /\ IsDivider
    /\ resistors[1].val # resistors[2].val
    /\ ~IsZero(voltage_sources[1].val)

(* C4: after assembly, for every voltage source k with terminals (n1, n2)  *)
(* and value v, n1 = n2 included, row N+k of A x = z is the constraint     *)
(* V(n1) - V(n2) = v: coefficient [n1 = j] - [n2 = j] at node column j,    *)
(* 0 at every source column, right-hand side v.  Stated over netlists      *)
(* whose nodes are all >= 0.                                               *)
(* The code assigns 1 and then -1 (lines 78-79): for n1 = n2 # 0 the row   *)
(* is -V(n1) = v.                                                          *)
C4_SourceRowIsBranchConstraint ==
    Assembled /\ NodesNonNegative =>
        \A s \in 1..num_vsources :
            LET src == voltage_sources[s]
            IN  /\ z[num_nodes + s] = src.val
                /\ \A j \in 1..(num_nodes + num_vsources) :
                      A[num_nodes + s][j] =
                          IF j <= num_nodes
                          THEN Real((IF src.n1 = j THEN 1 ELSE 0) - (IF src.n2 = j THEN 1 ELSE 0))
                          ELSE Zero

(* C5: a netlist of blank and comment lines only ends in TopologyError,    *)
(* with nothing allocated.                                                 *)
(* The code has no emptiness check: max() at line 58 raises ValueError.    *)
C5_EmptyNetlistTopologyError ==
    pc = "done" /\ (\A i \in 1..Len(file_content) : Skipped(file_content[i])) =>
        outcome = "raise" /\ exc = "TopologyError" /\ ~allocated

(* C6: when some line of the netlist is malformed (fewer than 4 tokens, a  *)
(* non-integer node token, an unparsable value), the call never leaves     *)
(* parsing except by raising: G, B and z are never allocated, no stamp is  *)
(* applied, the solver is never called and no report or diagnostic is      *)
(* returned.                                                               *)
C6_ParseErrorsFailFast ==
    (\E i \in 1..Len(file_content) : Malformed(file_content[i], mode)) =>
        /\ pc \in {"parse", "done"}
        /\ pc = "done" => outcome = "raise"
        /\ outcome \in {"running", "raise"}
        /\ ~allocated /\ G = <<>> /\ B = <<>> /\ z = <<>>
        /\ stamps = 0
        /\ ~solved
        /\ report = NoReport

C6_Witness ==
    /\ pc = "done" /\ outcome = "raise"
    /\ Len(resistors) > 0
    /\ line < Len(file_content)
    /\ Malformed(file_content[line], mode)

(* C7: when some node index 1..N is referenced by no element, that row of  *)
(* A is zero and the call returns the singular-system diagnostic and       *)
(* nothing else.                                                           *)
(* With a negative node (see C10) a stamp wraps around into the            *)
(* unreferenced node's row, and a report is returned.                      *)
C7_GapIsSingular ==
    pc = "done" /\ GapNodes # {} =>
        /\ outcome = "singular"
        /\ report = NoReport
        /\ \A i \in GapNodes : \A j \in 1..(num_nodes + num_vsources) : A[i][j] = Zero

(* C8: in AC mode every parsed resistor has a real value.                  *)
(* The code parses a resistor's value like a source's (lines 35-43): a     *)
(* phasor literal gives a complex resistance.                              *)
C8_ResistorsRealInAC ==
    mode = "AC" => \A i \in 1..Len(resistors) : IsReal(resistors[i].val)

(* C9: once parsing succeeded, the two lists are the R-lines and the       *)
(* V-lines of the input in input order; once assembled, the k-th source    *)
(* owns z[N+k] and column k of B, which holds that source's stamp and      *)
(* nothing else; and in a report the k-th source current is x[N+k] of a    *)
(* solution of A x = z.                                                    *)
C9_SourceOrderOwnsColumn ==
    /\ ParseReturned =>
          /\ resistors = SelectElems(file_content, "R", mode)
          /\ voltage_sources = SelectElems(file_content, "V", mode)
    /\ Assembled =>
          \A s \in 1..num_vsources :
              LET src == voltage_sources[s]
              IN  /\ z[num_nodes + s] = src.val
                  /\ \A i \in 1..num_nodes :
                        B[i][s] =
                            IF src.n2 # 0 /\ i = PyIndex(src.n2 - 1, num_nodes) THEN Real(-1)
                            ELSE IF src.n1 # 0 /\ i = PyIndex(src.n1 - 1, num_nodes) THEN One
                            ELSE Zero
    /\ outcome = "report" =>
          /\ Len(report.source_currents) = num_vsources
          /\ \A s \in 1..num_vsources :
                /\ report.source_currents[s].idx = s
                /\ report.source_currents[s].val = x[num_nodes + s]
          /\ \A i \in 1..(num_nodes + num_vsources) :
                Dot(A[i], x, num_nodes + num_vsources) = z[i]

C9_Witness ==
    /\ outcome = "report"
    /\ num_vsources = 2 /\ Len(resistors) = 1
    /\ report.source_currents[1].val # report.source_currents[2].val
    /\ voltage_sources[1].val # voltage_sources[2].val

(* C10: every parsed element has n1 >= 0 and n2 >= 0.                      *)
(* int() at line 32 accepts a signed literal: a node of -1 is parsed and   *)
(* its stamps index G and B from the end.                                  *)
C10_NodesNonNegative == NodesNonNegative

====
